---- MODULE Spec2Model ----
(***************************************************************************)
(* A model of rusty-grep (src/src/main.rs): pattern compilation, the       *)
(* per-line match decision, highlighting, and the per-file scan loop with   *)
(* its three output modes.                                                  *)
(*                                                                          *)
(* Text is a sequence of one-character strings.  Offsets are 0-based, as in *)
(* the Rust source; line[a..b] is SubSeq(line, a + 1, b).                   *)
(***************************************************************************)
EXTENDS Integers, Sequences, FiniteSets, TLC

\* ------------------------------------------------------------------ bounds
MaxLineLen == 3
MaxPatLen == 2
MaxFiles == 2
MaxTotalLines == 3
\* The number of times the unit of a long pattern is repeated: enough for any
\* non-empty unit to exceed the regex crate's size limit.
LongTimes == 327680

\* The characters lines and patterns are drawn from: a lower-case and an
\* upper-case word character, and a non-word character that is also a regex
\* metacharacter.
Alphabet == {"a", "A", "."}

RECURSIVE StringsUpTo(_)
StringsUpTo(n) ==
    IF n = 0 THEN {<<>>}
    ELSE LET shorter == StringsUpTo(n - 1)
         IN  shorter \cup {Append(s, c) : s \in {t \in shorter : Len(t) = n - 1}, c \in Alphabet}

\* ------------------------------------------------- the regex crate, as used
\* Word characters of \b (the crate's \b is Unicode-aware; on ASCII text it is
\* exactly this class).
WordChars ==
    {"a", "b", "c", "d", "e", "f", "g", "h", "i", "j", "k", "l", "m",
     "n", "o", "p", "q", "r", "s", "t", "u", "v", "w", "x", "y", "z",
     "A", "B", "C", "D", "E", "F", "G", "H", "I", "J", "K", "L", "M",
     "N", "O", "P", "Q", "R", "S", "T", "U", "V", "W", "X", "Y", "Z",
     "0", "1", "2", "3", "4", "5", "6", "7", "8", "9", "_"}

\* The characters regex::escape puts a backslash before.
MetaChars ==
    {"\\", ".", "+", "*", "?", "(", ")", "|", "[", "]", "{", "}",
     "^", "$", "#", "&", "-", "~"}

\* regex::escape: every metacharacter gets a backslash before it.
RECURSIVE escape(_)
escape(s) ==
    IF s = <<>> THEN <<>>
    ELSE (IF Head(s) \in MetaChars THEN <<"\\", Head(s)>> ELSE <<Head(s)>>)
         \o escape(Tail(s))

\* The items of a parsed expression: a literal character, the word-boundary
\* assertion \b, or the any-character class (an unescaped dot).
Lit(c) == [k |-> "lit", c |-> c]
WordBoundary == [k |-> "wb", c |-> ""]
AnyChar == [k |-> "any", c |-> ""]

RECURSIVE ParseItems(_)
ParseItems(s) ==
    IF s = <<>> THEN <<>>
    ELSE IF Head(s) = "\\" /\ Len(s) >= 2
         THEN <<(IF s[2] = "b" THEN WordBoundary ELSE Lit(s[2]))>>
              \o ParseItems(SubSeq(s, 3, Len(s)))
    ELSE IF Head(s) = "." THEN <<AnyChar>> \o ParseItems(Tail(s))
    ELSE <<Lit(Head(s))>> \o ParseItems(Tail(s))

CaseFlag == <<"(", "?", "i", ")">>

\* An expression is written down as a sequence of segments, each a text and
\* the number of times it is repeated, so that an expression too long to
\* compile can be written down.  The expression is the segments' texts, each
\* repeated, one after the other; every segment holds whole tokens.
Seg(text, times) == [text |-> text, times |-> times]

RECURSIVE Repeat(_, _)
Repeat(x, n) == IF n = 0 \/ x = <<>> THEN <<>> ELSE x \o Repeat(x, n - 1)

RECURSIVE SegsItems(_)
SegsItems(segs) ==
    IF segs = <<>> THEN <<>>
    ELSE Repeat(ParseItems(Head(segs).text), Head(segs).times) \o SegsItems(Tail(segs))

\* The default size limit of a compiled expression, in bytes.
RegexSizeLimit == 10485760

Letters ==
    {"a", "b", "c", "d", "e", "f", "g", "h", "i", "j", "k", "l", "m",
     "n", "o", "p", "q", "r", "s", "t", "u", "v", "w", "x", "y", "z",
     "A", "B", "C", "D", "E", "F", "G", "H", "I", "J", "K", "L", "M",
     "N", "O", "P", "Q", "R", "S", "T", "U", "V", "W", "X", "Y", "Z"}

\* The letters whose case folding leaves ASCII: k and K fold with the Kelvin
\* sign (U+212A), s and S with the long s (U+017F).
WideFoldLetters == {"k", "K", "s", "S"}

\* The bytes one item adds to the compiled expression: 32 for a literal or an
\* assertion; under (?i) 80 for a letter, 236 for k and K, 204 for s and S;
\* 1000 for the any-character class, a UTF-8 automaton.
ItemCost(it, ci) ==
    IF it.k = "any" THEN 1000
    ELSE IF it.k = "lit" /\ ci /\ it.c \in Letters
         THEN (IF it.c \in {"k", "K"} THEN 236
               ELSE IF it.c \in {"s", "S"} THEN 204
               ELSE 80)
    ELSE 32

\* Whether some item of the expression folds with a character outside ASCII.
HasWideFold(segs, ci) ==
    /\ ci
    /\ \E n \in DOMAIN segs :
          /\ segs[n].times > 0
          /\ \E t \in DOMAIN segs[n].text : segs[n].text[t] \in WideFoldLetters

RECURSIVE ItemsCost(_, _)
ItemsCost(items, ci) ==
    IF items = <<>> THEN 0 ELSE ItemCost(Head(items), ci) + ItemsCost(Tail(items), ci)

RECURSIVE SegsCost(_, _)
SegsCost(segs, ci) ==
    IF segs = <<>> THEN 0
    ELSE Head(segs).times * ItemsCost(ParseItems(Head(segs).text), ci)
         + SegsCost(Tail(segs), ci)

\* The size of the compiled expression: what every expression costs (the
\* unanchored prefix, the capture and match states; 64 bytes less when an item
\* folds outside ASCII) and what its items add.
CompiledSize(segs, ci) == (IF HasWideFold(segs, ci) THEN 144 ELSE 208) + SegsCost(segs, ci)

\* Display of an unsigned integer: its decimal digits.
Digit(d) == <<"0", "1", "2", "3", "4", "5", "6", "7", "8", "9">>[d + 1]

RECURSIVE ToDigits(_)
ToDigits(n) == IF n < 10 THEN <<Digit(n)>> ELSE Append(ToDigits(n \div 10), Digit(n % 10))

NoRegex == [ci |-> FALSE, items |-> <<>>]

\* Display of regex::Error::CompiledTooBig.
CompiledTooBig ==
    <<"Compiled regex exceeds size limit of ">> \o ToDigits(RegexSizeLimit) \o <<" bytes.">>

\* Regex::new on the expressions get_regex builds: an optional leading (?i),
\* then literals, escapes and \b.  It fails when the compiled expression
\* exceeds the size limit.
RegexNew(segs) ==
    LET ci == segs # <<>> /\ Head(segs) = Seg(CaseFlag, 1)
        rest == IF ci THEN Tail(segs) ELSE segs
    IN  IF CompiledSize(rest, ci) > RegexSizeLimit
        THEN [ok |-> FALSE, re |-> NoRegex, err |-> CompiledTooBig]
        ELSE [ok |-> TRUE, re |-> [ci |-> ci, items |-> SegsItems(rest)], err |-> <<>>]

\* Simple case folding on the alphabet's letters.
Lower(c) == IF c = "A" THEN "a" ELSE c

CharEq(ci, c, d) == IF ci THEN Lower(c) = Lower(d) ELSE c = d

\* \b at offset q: exactly one of the characters around q is a word character.
IsBoundary(line, q) ==
    LET before == q > 0 /\ line[q] \in WordChars
        after == q < Len(line) /\ line[q + 1] \in WordChars
    IN  before # after

\* The end offset of the match of items starting at offset q, or -1.
RECURSIVE MatchItems(_, _, _, _)
MatchItems(items, ci, line, q) ==
    IF items = <<>> THEN q
    ELSE LET it == Head(items)
         IN  IF it.k = "wb"
             THEN IF IsBoundary(line, q) THEN MatchItems(Tail(items), ci, line, q) ELSE -1
             ELSE IF q >= Len(line) THEN -1
             ELSE IF it.k = "any" \/ CharEq(ci, it.c, line[q + 1])
                  THEN MatchItems(Tail(items), ci, line, q + 1)
                  ELSE -1

MatchAt(re, line, p) == MatchItems(re.items, re.ci, line, p)

\* Regex::is_match: an occurrence anywhere in the line.
is_match(re, line) == \E p \in 0..Len(line) : MatchAt(re, line, p) # -1

NoMatch == [start |-> -1, end |-> -1]

\* The leftmost match starting at or after offset from.
Find(re, line, from) ==
    LET starts == {p \in from..Len(line) : MatchAt(re, line, p) # -1}
    IN  IF starts = {} THEN NoMatch
        ELSE LET p == CHOOSE x \in starts : \A y \in starts : x <= y
             IN  [start |-> p, end |-> MatchAt(re, line, p)]

\* Regex::find_iter: successive leftmost matches, each search starting where
\* the previous match ended; an empty match that ends where the previous
\* match ended is skipped by searching again one character further.
RECURSIVE FindIter(_, _, _, _)
FindIter(re, line, from, last_end) ==
    LET m0 == Find(re, line, from)
        m == IF m0 # NoMatch /\ m0.start = m0.end /\ m0.end = last_end
             THEN Find(re, line, from + 1)
             ELSE m0
    IN  IF m = NoMatch THEN <<>>
        ELSE <<m>> \o FindIter(re, line, m.end, m.end)

find_iter(re, line) == FindIter(re, line, 0, -1)

\* ----------------------------------------------------- the colored crate
MarkOn == "ESC[1;31m"
MarkOff == "ESC[0m"
Markers == {MarkOn, MarkOff}

\* text.red().bold().to_string(): the text between the bold-red and the reset
\* sequence when the crate colorizes, the text alone when it does not.
red_bold(text, colorize) ==
    IF colorize THEN <<MarkOn>> \o text \o <<MarkOff>> ELSE text

\* ------------------------------------------------------------- main.rs
\* A buggy get_regex that compiles the pattern without escaping it.
get_regex_unescaped(a) ==
    LET raw == <<Seg(a.pattern, a.pattern_times)>>
        pattern == IF a.whole_words
                   THEN <<Seg(<<"\\", "b">>, 1)>> \o raw \o <<Seg(<<"\\", "b">>, 1)>>
                   ELSE raw
    IN  IF a.case_insensitive THEN RegexNew(<<Seg(CaseFlag, 1)>> \o pattern)
        ELSE RegexNew(pattern)

\* get_regex: the escaped pattern, between \b's under -w, after (?i) under -i;
\* Ok(regex), or Regex::new's error.  The pattern on the command line is
\* a.pattern repeated a.pattern_times times, and its escape is the escape of
\* a.pattern repeated as many times.
get_regex(a) ==
    LET escaped == <<Seg(escape(a.pattern), a.pattern_times)>>
        pattern == IF a.whole_words
                   THEN <<Seg(<<"\\", "b">>, 1)>> \o escaped \o <<Seg(<<"\\", "b">>, 1)>>
                   ELSE escaped
    IN  IF a.case_insensitive THEN RegexNew(<<Seg(CaseFlag, 1)>> \o pattern)
        ELSE RegexNew(pattern)

\* get_matches: the matcher's answer, negated under -v.
get_matches(a, line, re) ==
    LET matches == is_match(re, line)
    IN  IF a.invert_match THEN ~matches ELSE matches

\* line[a..b]
Slice(line, a, b) == SubSeq(line, a + 1, b)

RECURSIVE HighlightLoop(_, _, _, _, _)
HighlightLoop(line, ms, last_match, result, colorize) ==
    IF ms = <<>> THEN result \o Slice(line, last_match, Len(line))
    ELSE LET mat == Head(ms)
         IN  HighlightLoop(line, Tail(ms), mat.end,
                           result \o Slice(line, last_match, mat.start)
                                  \o red_bold(Slice(line, mat.start, mat.end), colorize),
                           colorize)

\* A buggy highlighter that drops the text after the last match.
RECURSIVE HighlightNoTail(_, _, _, _, _)
HighlightNoTail(line, ms, last_match, result, colorize) ==
    IF ms = <<>> THEN result
    ELSE LET mat == Head(ms)
         IN  HighlightNoTail(line, Tail(ms), mat.end,
                             result \o Slice(line, last_match, mat.start)
                                    \o red_bold(Slice(line, mat.start, mat.end), colorize),
                             colorize)

highlight_matches_no_tail(line, re, colorize) ==
    HighlightNoTail(line, find_iter(re, line), 0, <<>>, colorize)

highlight_matches(line, re, colorize) ==
    HighlightLoop(line, find_iter(re, line), 0, <<>>, colorize)

should_use_color(color_option, stdout_is_terminal) ==
    IF color_option = "always" THEN TRUE
    ELSE IF color_option = "never" THEN FALSE
    ELSE stdout_is_terminal

\* A buggy print_match that prints the stored 0-based index.
print_match_zero_based(file, index, line, re, show_line_number, show_filename, use_col, colorize) ==
    LET prefix == IF show_filename
                  THEN IF show_line_number
                       THEN file \o <<":">> \o ToDigits(index) \o <<":">>
                       ELSE file \o <<":">>
                  ELSE IF show_line_number
                       THEN ToDigits(index) \o <<":">>
                       ELSE <<>>
        output == IF use_col THEN highlight_matches(line, re, colorize) ELSE line
    IN  prefix \o output

\* print_match: the line it writes to standard output.
print_match(file, index, line, re, show_line_number, show_filename, use_col, colorize) ==
    LET prefix == IF show_filename
                  THEN IF show_line_number
                       THEN file \o <<":">> \o ToDigits(index + 1) \o <<":">>
                       ELSE file \o <<":">>
                  ELSE IF show_line_number
                       THEN ToDigits(index + 1) \o <<":">>
                       ELSE <<>>
        output == IF use_col THEN highlight_matches(line, re, colorize) ELSE line
    IN  prefix \o output

\* str::lines: the text between line feeds (a carriage return before a line
\* feed is dropped with it); text after the last line feed is a line only when
\* it is not empty.
StripCr(l) == IF l # <<>> /\ l[Len(l)] = "\r" THEN SubSeq(l, 1, Len(l) - 1) ELSE l

RECURSIVE SplitLines(_, _)
SplitLines(s, cur) ==
    IF s = <<>> THEN (IF cur = <<>> THEN <<>> ELSE <<cur>>)
    ELSE IF Head(s) = "\n" THEN <<StripCr(cur)>> \o SplitLines(Tail(s), <<>>)
    ELSE SplitLines(Tail(s), Append(cur, Head(s)))

lines(contents) == SplitLines(contents, <<>>)

\* ------------------------------------------------------------ the state
VARIABLES
    args,           \* the parsed command line (struct Args)
    is_terminal,    \* whether standard output is a terminal
    colorize,       \* whether the colored crate emits escape sequences
    files,          \* per listed file: what read_to_string returns for it
    pc,             \* the position in main / run / process_file
    regex,          \* run's compiled matcher
    show_filename,  \* run's show_filename
    fileIdx,        \* position of run's for loop in args.file, from 1
    file_lines,     \* process_file: contents.lines()
    index,          \* process_file: the 0-based index of the next line
    count,          \* process_file: count
    use_color,      \* process_file: use_color
    stdout,         \* the lines written to standard output, each with the
                    \* file and line position it was written at
    stderr,         \* the lines written to standard error
    calls,          \* the calls of get_matches, highlight_matches and
                    \* should_use_color made so far, in order
    exit_code,      \* the process's exit status, -1 while it runs
    uLine,          \* direct calls: the line passed in
    uMatch,         \* direct calls: what get_matches returned
    uHighlight      \* direct calls: what highlight_matches returned

vars == <<args, is_terminal, colorize, files, pc, regex, show_filename, fileIdx,
          file_lines, index, count, use_color, stdout, stderr, calls, exit_code,
          uLine, uMatch, uHighlight>>

unitVars == <<uLine, uMatch, uHighlight>>
envVars == <<args, is_terminal, colorize, files>>
runLocals == <<regex, show_filename>>
fileLocals == <<file_lines, index, count, use_color>>

\* ------------------------------------------------------------- inputs
FileName(i) == <<"f", Digit(i)>>

RECURSIVE FileNames(_)
FileNames(n) == IF n = 0 THEN <<>> ELSE Append(FileNames(n - 1), FileName(n))

\* The lines the files of a run are made of, and the pattern searched.
RunLines == {<<"a", ".", "a">>, <<"A">>}
RunPatterns == {<<"a">>}

RECURSIVE SeqsUpTo(_, _)
SeqsUpTo(S, n) ==
    IF n = 0 THEN {<<>>}
    ELSE LET shorter == SeqsUpTo(S, n - 1)
         IN  shorter \cup {Append(s, x) : s \in {t \in shorter : Len(t) = n - 1}, x \in S}

\* A file's text: its lines, each ended by a line feed.
RECURSIVE FileText(_)
FileText(ls) == IF ls = <<>> THEN <<>> ELSE Head(ls) \o <<"\n">> \o FileText(Tail(ls))

ReadErrors == {"No such file or directory (os error 2)"}

\* What std::fs::read_to_string returns: the text, or an error.
ReadResults ==
    {[ok |-> TRUE, text |-> FileText(ls), err |-> ""] : ls \in SeqsUpTo(RunLines, MaxTotalLines)}
    \cup {[ok |-> FALSE, text |-> <<>>, err |-> e] : e \in ReadErrors}

RECURSIVE TotalLines(_, _)
TotalLines(fs, n) == IF n = 0 THEN 0 ELSE TotalLines(fs, n - 1) + Len(lines(fs[n].text))

\* The files of a run: at most MaxFiles of them, holding at most MaxTotalLines
\* lines all together.
FileLists(n) == {fs \in [1..n -> ReadResults] : TotalLines(fs, n) <= MaxTotalLines}

Colors == {"auto", "always", "never"}

\* The command lines clap accepts: -c, -l and -n exclude one another.
ArgsOf(patterns, nfiles, nocase, whole) ==
    {a \in [pattern : patterns, pattern_times : {1, LongTimes}, file : {FileNames(nfiles)},
            show_line_numbers : BOOLEAN, case_insensitive : nocase,
            invert_match : BOOLEAN, count : BOOLEAN, files_with_matches : BOOLEAN,
            whole_words : whole, color : Colors] :
        /\ ~(a.count /\ (a.show_line_numbers \/ a.files_with_matches))
        /\ ~(a.files_with_matches /\ a.show_line_numbers)}

\* The runs: every output mode, -v and --color choice on up to MaxFiles files.
\* The pattern is compiled without -i and -w here (InitUnit covers them).
Init ==
    /\ \E n \in 0..MaxFiles :
          /\ files \in FileLists(n)
          /\ args \in ArgsOf(RunPatterns, n, {FALSE}, {FALSE})
    /\ is_terminal \in BOOLEAN
    /\ colorize \in BOOLEAN
    /\ pc = "main"
    /\ regex = NoRegex
    /\ show_filename = FALSE
    /\ fileIdx = 0
    /\ file_lines = <<>>
    /\ index = 0
    /\ count = 0
    /\ use_color = FALSE
    /\ stdout = <<>>
    /\ stderr = <<>>
    /\ calls = <<>>
    /\ exit_code = -1
    /\ uLine = <<>>
    /\ uMatch = FALSE
    /\ uHighlight = <<>>

\* ------------------------------------------------------------- run
Call(op, f, l, v) == [op |-> op, file |-> f, line |-> l, val |-> v]
Out(text, f, l) == [text |-> text, file |-> f, line |-> l]

\* run fails at get_regex: main reports the error and exits with status 1;
\* no file is opened.
CompileFail ==
    /\ pc = "main"
    /\ ~get_regex(args).ok
    /\ stderr' = Append(stderr, <<"Application error: ">> \o get_regex(args).err)
    /\ pc' = "exit"
    /\ exit_code' = 1
    /\ UNCHANGED <<envVars, runLocals, fileIdx, fileLocals, stdout, calls, unitVars>>

\* run, up to its for loop: the matcher is compiled once.
RunStart ==
    /\ pc = "main"
    /\ get_regex(args).ok
    /\ regex' = get_regex(args).re
    /\ show_filename' = (Len(args.file) > 1)
    /\ fileIdx' = 1
    /\ pc' = "for_file"
    /\ UNCHANGED <<envVars, fileLocals, stdout, stderr, calls, exit_code, unitVars>>

\* A buggy run that gives up at the first file it cannot read.
ReadFailAbort ==
    /\ pc = "for_file"
    /\ fileIdx <= Len(args.file)
    /\ ~files[fileIdx].ok
    /\ stderr' = Append(stderr, <<"Application error: ", files[fileIdx].err>>)
    /\ pc' = "exit"
    /\ exit_code' = 1
    /\ UNCHANGED <<envVars, runLocals, fileIdx, fileLocals, stdout, calls, unitVars>>

\* process_file fails at read_to_string; run reports it and goes on.
ReadFail ==
    /\ pc = "for_file"
    /\ fileIdx <= Len(args.file)
    /\ ~files[fileIdx].ok
    /\ stderr' = Append(stderr, args.file[fileIdx] \o <<":", " ", files[fileIdx].err>>)
    /\ fileIdx' = fileIdx + 1
    /\ UNCHANGED <<envVars, runLocals, pc, fileLocals, stdout, calls, exit_code, unitVars>>

\* process_file, up to its for loop.
ReadOk ==
    /\ pc = "for_file"
    /\ fileIdx <= Len(args.file)
    /\ files[fileIdx].ok
    /\ file_lines' = lines(files[fileIdx].text)
    /\ count' = 0
    /\ use_color' = should_use_color(args.color, is_terminal)
    /\ calls' = Append(calls, Call("should_use_color", fileIdx, -1,
                                   should_use_color(args.color, is_terminal)))
    /\ index' = 0
    /\ pc' = "for_line"
    /\ UNCHANGED <<envVars, runLocals, fileIdx, stdout, stderr, exit_code, unitVars>>

CurLine == file_lines[index + 1]
Decision == get_matches(args, CurLine, regex)
DecisionCall == Call("get_matches", fileIdx, index, Decision)

\* A buggy loop body that asks for the color decision at every line.
LineNotSelectedRecolor ==
    /\ pc = "for_line"
    /\ index < Len(file_lines)
    /\ ~Decision
    /\ calls' = calls \o <<DecisionCall,
                           Call("should_use_color", fileIdx, index,
                                should_use_color(args.color, is_terminal))>>
    /\ index' = index + 1
    /\ UNCHANGED <<envVars, runLocals, pc, fileIdx, file_lines, count, use_color,
                   stdout, stderr, exit_code, unitVars>>

\* The loop body for a line get_matches rejects.
LineNotSelected ==
    /\ pc = "for_line"
    /\ index < Len(file_lines)
    /\ ~Decision
    /\ calls' = Append(calls, DecisionCall)
    /\ index' = index + 1
    /\ UNCHANGED <<envVars, runLocals, pc, fileIdx, file_lines, count, use_color,
                   stdout, stderr, exit_code, unitVars>>

\* A buggy -l branch that prints the name and keeps scanning.
LineFilesWithMatchesNoReturn ==
    /\ pc = "for_line"
    /\ index < Len(file_lines)
    /\ Decision
    /\ args.files_with_matches
    /\ calls' = Append(calls, DecisionCall)
    /\ stdout' = Append(stdout, Out(args.file[fileIdx], fileIdx, index))
    /\ index' = index + 1
    /\ UNCHANGED <<envVars, runLocals, pc, fileIdx, file_lines, count, use_color,
                   stderr, exit_code, unitVars>>

\* The loop body under -l: print the file's name and return from process_file.
LineFilesWithMatches ==
    /\ pc = "for_line"
    /\ index < Len(file_lines)
    /\ Decision
    /\ args.files_with_matches
    /\ calls' = Append(calls, DecisionCall)
    /\ stdout' = Append(stdout, Out(args.file[fileIdx], fileIdx, index))
    /\ pc' = "for_file"
    /\ fileIdx' = fileIdx + 1
    /\ UNCHANGED <<envVars, runLocals, fileLocals, stderr, exit_code, unitVars>>

\* A buggy -c branch that counts the matched substrings.
LineCountSubstrings ==
    /\ pc = "for_line"
    /\ index < Len(file_lines)
    /\ Decision
    /\ ~args.files_with_matches
    /\ args.count
    /\ calls' = Append(calls, DecisionCall)
    /\ count' = count + Len(find_iter(regex, CurLine))
    /\ index' = index + 1
    /\ UNCHANGED <<envVars, runLocals, pc, fileIdx, file_lines, use_color,
                   stdout, stderr, exit_code, unitVars>>

\* The loop body under -c: count the line.
LineCount ==
    /\ pc = "for_line"
    /\ index < Len(file_lines)
    /\ Decision
    /\ ~args.files_with_matches
    /\ args.count
    /\ calls' = Append(calls, DecisionCall)
    /\ count' = count + 1
    /\ index' = index + 1
    /\ UNCHANGED <<envVars, runLocals, pc, fileIdx, file_lines, use_color,
                   stdout, stderr, exit_code, unitVars>>

\* A buggy print_match that highlights whatever the color decision was.
PrintMatchCallsAlways(f, i, use_col) == <<Call("highlight_matches", f, i, TRUE)>>

\* The calls print_match makes: highlight_matches when use_color is set.
PrintMatchCalls(f, i, use_col) ==
    IF use_col THEN <<Call("highlight_matches", f, i, TRUE)>> ELSE <<>>

PrintedLine ==
    print_match(args.file[fileIdx], index, CurLine, regex,
                args.show_line_numbers, show_filename, use_color, colorize)

\* A buggy normal branch whose output comes out ahead of what was written.
LinePrintFirst ==
    /\ pc = "for_line"
    /\ index < Len(file_lines)
    /\ Decision
    /\ ~args.files_with_matches
    /\ ~args.count
    /\ calls' = Append(calls, DecisionCall) \o PrintMatchCalls(fileIdx, index, use_color)
    /\ stdout' = <<Out(PrintedLine, fileIdx, index)>> \o stdout
    /\ index' = index + 1
    /\ UNCHANGED <<envVars, runLocals, pc, fileIdx, file_lines, count, use_color,
                   stderr, exit_code, unitVars>>

\* The loop body in normal mode: print_match.
LinePrint ==
    /\ pc = "for_line"
    /\ index < Len(file_lines)
    /\ Decision
    /\ ~args.files_with_matches
    /\ ~args.count
    /\ calls' = Append(calls, DecisionCall) \o PrintMatchCalls(fileIdx, index, use_color)
    /\ stdout' = Append(stdout, Out(PrintedLine, fileIdx, index))
    /\ index' = index + 1
    /\ UNCHANGED <<envVars, runLocals, pc, fileIdx, file_lines, count, use_color,
                   stderr, exit_code, unitVars>>

\* process_file after its for loop: the count under -c, then return.
EndOfFile ==
    /\ pc = "for_line"
    /\ index = Len(file_lines)
    /\ stdout' = IF args.count
                 THEN Append(stdout,
                             Out(IF show_filename
                                 THEN args.file[fileIdx] \o <<":">> \o ToDigits(count)
                                 ELSE ToDigits(count),
                                 fileIdx, index))
                 ELSE stdout
    /\ pc' = "for_file"
    /\ fileIdx' = fileIdx + 1
    /\ UNCHANGED <<envVars, runLocals, fileLocals, stderr, calls, exit_code, unitVars>>

\* run returns Ok(()) after the last file; main exits with status 0.
RunOk ==
    /\ pc = "for_file"
    /\ fileIdx > Len(args.file)
    /\ pc' = "exit"
    /\ exit_code' = 0
    /\ UNCHANGED <<envVars, runLocals, fileIdx, fileLocals, stdout, stderr, calls, unitVars>>

Next ==
    \/ CompileFail
    \/ RunStart
    \/ ReadFail
    \/ ReadOk
    \/ LineNotSelected
    \/ LineFilesWithMatches
    \/ LineCount
    \/ LinePrint
    \/ EndOfFile
    \/ RunOk

Spec == Init /\ [][Next]_vars

\* ------------------------------------------- the functions called directly
\* get_regex, get_matches and highlight_matches on every pattern and line up
\* to the bounds, under every combination of -i, -w and -v.
InitUnit ==
    /\ args \in {a \in ArgsOf(StringsUpTo(MaxPatLen), 0, BOOLEAN, BOOLEAN) :
                    /\ ~a.show_line_numbers /\ ~a.count /\ ~a.files_with_matches
                    /\ a.color = "always"}
    /\ uLine \in StringsUpTo(MaxLineLen)
    /\ colorize \in BOOLEAN
    /\ is_terminal = FALSE
    /\ files = <<>>
    /\ pc = "u_start"
    /\ regex = NoRegex
    /\ show_filename = FALSE
    /\ fileIdx = 0
    /\ file_lines = <<>>
    /\ index = 0
    /\ count = 0
    /\ use_color = FALSE
    /\ stdout = <<>>
    /\ stderr = <<>>
    /\ calls = <<>>
    /\ exit_code = -1
    /\ uMatch = FALSE
    /\ uHighlight = <<>>

runVars == <<show_filename, fileIdx, file_lines, index, count, use_color,
             stdout, stderr, calls, exit_code>>

UnitCompileFail ==
    /\ pc = "u_start"
    /\ ~get_regex(args).ok
    /\ pc' = "u_error"
    /\ UNCHANGED <<envVars, runVars, regex, unitVars>>

UnitCompile ==
    /\ pc = "u_start"
    /\ get_regex(args).ok
    /\ regex' = get_regex(args).re
    /\ pc' = "u_compiled"
    /\ UNCHANGED <<envVars, runVars, unitVars>>

UnitGetMatches ==
    /\ pc = "u_compiled"
    /\ uMatch' = get_matches(args, uLine, regex)
    /\ pc' = "u_matched"
    /\ UNCHANGED <<envVars, runVars, regex, uLine, uHighlight>>

UnitHighlight ==
    /\ pc = "u_matched"
    /\ uHighlight' = highlight_matches(uLine, regex, colorize)
    /\ pc' = "u_done"
    /\ UNCHANGED <<envVars, runVars, regex, uLine, uMatch>>

NextUnit ==
    \/ UnitCompileFail
    \/ UnitCompile
    \/ UnitGetMatches
    \/ UnitHighlight

SpecUnit == InitUnit /\ [][NextUnit]_vars

\* ----------------------------------------------------- what is expected
Files == 1..Len(args.file)
Readable(f) == files[f].ok
LinesOf(f) == lines(files[f].text)
LineAt(f, i) == LinesOf(f)[i + 1]
Indexes(f) == 0..(Len(LinesOf(f)) - 1)
\* The match decision of line i of file f, by the matcher run compiled.
Selected(f, i) == get_matches(args, LineAt(f, i), regex)
SelectedSet(f) == LET ls == LinesOf(f)
                  IN  {i \in 0..(Len(ls) - 1) : get_matches(args, ls[i + 1], regex)}
ColorOn == should_use_color(args.color, is_terminal)
NormalMode == ~args.count /\ ~args.files_with_matches
StdoutText == [k \in DOMAIN stdout |-> stdout[k].text]
Strip(out) == SelectSeq(out, LAMBDA t : t \notin Markers)
Started(f) == fileIdx > f \/ (fileIdx = f /\ pc = "for_line")
Finished(f) == fileIdx > f
PrintsOf(f) == {k \in DOMAIN stdout : stdout[k].file = f}
EvalsOf(f) == {k \in DOMAIN calls : calls[k].op = "get_matches" /\ calls[k].file = f}
ColorEvals == {k \in DOMAIN calls : calls[k].op = "should_use_color"}
HighlightCalls == {k \in DOMAIN calls : calls[k].op = "highlight_matches"}

\* The lines a readable file contributes to standard output when the filename
\* prefix is decided by showName.
RECURSIVE NormalOutput(_, _, _)
NormalOutput(f, i, showName) ==
    IF i >= Len(LinesOf(f)) THEN <<>>
    ELSE (IF Selected(f, i)
          THEN <<print_match(args.file[f], i, LineAt(f, i), regex,
                             args.show_line_numbers, showName, ColorOn, colorize)>>
          ELSE <<>>)
         \o NormalOutput(f, i + 1, showName)

FileOutput(f, showName) ==
    IF ~Readable(f) THEN <<>>
    ELSE IF args.files_with_matches
         THEN (IF SelectedSet(f) = {} THEN <<>> ELSE <<args.file[f]>>)
    ELSE IF args.count
         THEN <<(IF showName THEN args.file[f] \o <<":">> ELSE <<>>)
                \o ToDigits(Cardinality(SelectedSet(f)))>>
    ELSE NormalOutput(f, 0, showName)

RECURSIVE RunOutput(_, _)
RunOutput(n, showName) ==
    IF n = 0 THEN <<>> ELSE RunOutput(n - 1, showName) \o FileOutput(n, showName)

RECURSIVE ErrorOutput(_)
ErrorOutput(n) ==
    IF n = 0 THEN <<>>
    ELSE ErrorOutput(n - 1)
         \o (IF Readable(n) THEN <<>> ELSE <<args.file[n] \o <<":", " ", files[n].err>>>>)

ReadableFiles == {f \in Files : Readable(f)}
\* The pattern compiled: run got past get_regex.
Compiled == pc # "main" /\ exit_code # 1

\* --------------------------------------------------------------- claims
\* C1 as stated, for the runs whose pattern compiles: at exit the status is 0,
\* every failing file is reported as "<path>: <reason>", and standard output
\* is what a run listing only the readable files would print.
C1_AsIfNotListed ==
    (pc = "exit" /\ Compiled) =>
        /\ exit_code = 0
        /\ stderr = ErrorOutput(Len(args.file))
        /\ StdoutText = RunOutput(Len(args.file), Cardinality(ReadableFiles) > 1)

\* C1 amended: once the pattern has compiled, a read failure never ends the
\* run with a failure status; at exit the status is 0, every failing file is
\* reported in order as "<path>: <reason>", and standard output is the output
\* of the readable files in order, each as it is printed in a run of that many
\* listed files (the filename prefix depends on the number of files listed,
\* failing ones included).  The status is 1 only when the pattern does not
\* compile, and then no file has been read.
C1_ReadErrorIsolated ==
    /\ exit_code = 1 => (~get_regex(args).ok /\ fileIdx = 0 /\ stdout = <<>>)
    /\ (pc = "exit" /\ Compiled) =>
          /\ exit_code = 0
          /\ stderr = ErrorOutput(Len(args.file))
          /\ StdoutText = RunOutput(Len(args.file), Len(args.file) > 1)

C1_Witness ==
    /\ pc = "exit"
    /\ Len(args.file) = 2
    /\ ~Readable(1)
    /\ Readable(2)
    /\ PrintsOf(2) # {}
    /\ Len(stderr) = 1

\* C2: under -l a file's name is printed at most once, at its first selected
\* line; no line after that one is evaluated; a finished file has its name
\* printed iff one of its lines is selected.
C2_FilenamesOnly ==
    args.files_with_matches =>
        \A f \in Files :
            LET sel == SelectedSet(f)
            IN  /\ Cardinality(PrintsOf(f)) <= 1
                /\ \A k \in PrintsOf(f) :
                      /\ stdout[k].text = args.file[f]
                      /\ stdout[k].line \in sel
                      /\ \A j \in sel : stdout[k].line <= j
                /\ \A k \in EvalsOf(f) : \A j \in sel : calls[k].line <= j
                /\ \A k, m \in EvalsOf(f) : calls[k].line = calls[m].line => k = m
                /\ Finished(f) => (PrintsOf(f) # {} <=> sel # {})

C2_Witness ==
    /\ args.files_with_matches
    /\ pc = "exit"
    /\ Len(args.file) = 2
    /\ StdoutText = args.file
    /\ Len(LinesOf(1)) = 2
    /\ SelectedSet(1) = {0, 1}
    /\ Cardinality(EvalsOf(1)) = 1

\* C3: under -c nothing is printed for a file before its end, and a finished
\* readable file has exactly one line, printed at its end, carrying the number
\* of its selected lines, after "filename:" iff more than one file was given.
C3_CountMode ==
    args.count =>
        \A f \in Files :
            /\ ~(Readable(f) /\ Finished(f)) => PrintsOf(f) = {}
            /\ (Readable(f) /\ Finished(f)) =>
                  /\ Cardinality(PrintsOf(f)) = 1
                  /\ \A k \in PrintsOf(f) :
                        /\ stdout[k].line = Len(LinesOf(f))
                        /\ stdout[k].text =
                              (IF Len(args.file) > 1 THEN args.file[f] \o <<":">> ELSE <<>>)
                              \o ToDigits(Cardinality(SelectedSet(f)))

C3_Witness ==
    /\ args.count
    /\ pc = "exit"
    /\ Len(args.file) = 2
    /\ Len(LinesOf(1)) = 2
    /\ Cardinality(SelectedSet(1)) = 1
    /\ Cardinality(SelectedSet(2)) = 0
    /\ Readable(2)
    /\ StdoutText = << <<"f", "1", ":", "1">>, <<"f", "2", ":", "0">> >>

StartsWith(s, p) == Len(s) >= Len(p) /\ SubSeq(s, 1, Len(p)) = p

\* The content print_match puts after the prefix.
ShownLine(line) ==
    IF ColorOn THEN highlight_matches(line, regex, colorize) ELSE line

\* C4: in normal mode every printed line is the prefix and the line's content;
\* the prefix is "filename:lineNumber:", "filename:", "lineNumber:" or empty
\* by the number of files given and -n, with lineNumber the index plus 1.
C4_NormalPrefix ==
    NormalMode =>
        \A k \in DOMAIN stdout :
            LET f == stdout[k].file
                i == stdout[k].line
                ls == LinesOf(f)
                many == Len(args.file) > 1
                number == ToDigits(i + 1) \o <<":">>
                name == args.file[f] \o <<":">>
                prefix == IF many /\ args.show_line_numbers THEN name \o number
                          ELSE IF many THEN name
                          ELSE IF args.show_line_numbers THEN number
                          ELSE <<>>
            IN  /\ i \in 0..(Len(ls) - 1)
                /\ get_matches(args, ls[i + 1], regex)
                /\ stdout[k].text = prefix \o ShownLine(ls[i + 1])
                /\ ~many => ~StartsWith(stdout[k].text, args.file[f])

C4_Witness ==
    /\ NormalMode
    /\ args.show_line_numbers
    /\ ~ColorOn
    /\ Len(args.file) = 2
    /\ \E k \in DOMAIN stdout :
          stdout[k].text = <<"f", "2", ":", "2", ":", "a", ".", "a">>

\* C8 as stated: highlight_matches is called only in normal mode, with color
\* enabled and invert off.
C8_HighlightOnlyNonInverted ==
    HighlightCalls # {} => (NormalMode /\ ColorOn /\ ~args.invert_match)

\* C8 amended: highlight_matches is called only in normal mode with color
\* enabled, and only for a line that is printed; under invert-match it is
\* called for the selected lines too, finds no match there and returns the
\* line unmodified.
C8_HighlightOnlyPrintedColored ==
    \A k \in HighlightCalls :
        /\ NormalMode
        /\ ColorOn
        /\ \E m \in DOMAIN stdout :
              /\ stdout[m].file = calls[k].file
              /\ stdout[m].line = calls[k].line
              /\ args.invert_match =>
                    \A t \in 1..Len(stdout[m].text) : stdout[m].text[t] \notin Markers

C8_Witness ==
    /\ args.invert_match
    /\ colorize
    /\ HighlightCalls # {}
    /\ \E m \in DOMAIN stdout : stdout[m].text = <<"A">>

\* C9: standard output is ordered by file, in the order the files were given,
\* and within a file by strictly increasing line index; every line written
\* belongs to a file whose processing has started.
C9_OutputOrder ==
    /\ \A j, k \in DOMAIN stdout :
          j < k =>
             \/ stdout[j].file < stdout[k].file
             \/ (stdout[j].file = stdout[k].file /\ stdout[j].line < stdout[k].line)
    /\ \A k \in DOMAIN stdout : Started(stdout[k].file) /\ Readable(stdout[k].file)
    /\ (pc = "exit" /\ Compiled) => StdoutText = RunOutput(Len(args.file), show_filename)

C9_Witness ==
    /\ pc = "exit"
    /\ NormalMode
    /\ Cardinality(PrintsOf(1)) = 2
    /\ Cardinality(PrintsOf(2)) = 1
    /\ Len(stdout) = 3

\* C10 as stated: over a run the color decision is evaluated at most once.
C10_ColorDecidedOnce ==
    Cardinality(ColorEvals) <= 1

\* C10 amended: the color decision is evaluated once for every file that is
\* read, before any of its lines is examined, and never per line; every
\* evaluation in a run gives the same value, which is the one used for every
\* line.
C10_ColorDecidedOncePerFile ==
    /\ \A f \in Files :
          Cardinality({k \in ColorEvals : calls[k].file = f})
             = (IF Readable(f) /\ Started(f) THEN 1 ELSE 0)
    /\ \A k \in ColorEvals :
          /\ calls[k].line = -1
          /\ calls[k].val = ColorOn
          /\ \A m \in EvalsOf(calls[k].file) : k < m
    /\ pc = "for_line" => use_color = ColorOn

C10_Witness ==
    /\ args.color = "auto"
    /\ is_terminal
    /\ Cardinality(ColorEvals) = 2
    /\ Cardinality(EvalsOf(1)) = 2

\* ------------------------------------------- claims on the direct calls
\* An occurrence of pattern P in line L at offset p, under the case rule.
OccursAt(L, P, p, ci) ==
    /\ p + Len(P) <= Len(L)
    /\ \A t \in 1..Len(P) : CharEq(ci, P[t], L[p + t])

Contains(L, P) == \E p \in 0..Len(L) : OccursAt(L, P, p, FALSE)

\* An occurrence with a non-word character or the line's edge on both sides.
WholeWordOccurs(L, P, ci) ==
    \E p \in 0..Len(L) :
        /\ OccursAt(L, P, p, ci)
        /\ (p = 0 \/ L[p] \notin WordChars)
        /\ (p + Len(P) = Len(L) \/ L[p + Len(P) + 1] \notin WordChars)

\* C5: with -w (and invert off) the decision is true iff the line holds an
\* occurrence of the pattern with a non-word character or the line's edge on
\* both sides.  Stated for the non-empty patterns, of which the claim speaks.
C5_WholeWord ==
    (pc = "u_done" /\ args.whole_words /\ ~args.invert_match /\ args.pattern # <<>>) =>
        uMatch = WholeWordOccurs(uLine, args.pattern, args.case_insensitive)

\* C6: without -w and -i, get_matches is "the line contains the pattern as a
\* substring, metacharacters taken literally" with invert off, and the
\* negation of that with invert on; an empty line is never selected for a
\* non-empty pattern with invert off and always with invert on.
C6_SubstringAndInvert ==
    (pc \in {"u_matched", "u_done"} /\ ~args.whole_words /\ ~args.case_insensitive) =>
        /\ uMatch = (IF args.invert_match THEN ~Contains(uLine, args.pattern)
                     ELSE Contains(uLine, args.pattern))
        /\ (uLine = <<>> /\ args.pattern # <<>>) => uMatch = args.invert_match

C6_Witness ==
    /\ pc = "u_done"
    /\ ~args.whole_words /\ ~args.case_insensitive
    /\ args.invert_match
    /\ args.pattern = <<".">>
    /\ uLine = <<"a", "A">>
    /\ uMatch

\* The texts between each bold-red sequence and the reset that follows it.
RECURSIVE Spans(_, _, _)
Spans(out, inside, cur) ==
    IF out = <<>> THEN <<>>
    ELSE IF Head(out) = MarkOn THEN Spans(Tail(out), TRUE, <<>>)
    ELSE IF Head(out) = MarkOff THEN <<cur>> \o Spans(Tail(out), FALSE, <<>>)
    ELSE Spans(Tail(out), inside, IF inside THEN Append(cur, Head(out)) ELSE cur)

\* C7: stripping the emphasis markers from highlight_matches(L, M) gives L; a
\* line without a match is returned unmodified; when the markers are emitted
\* the emphasized spans are the matches of M in L, in order.
C7_HighlightRoundTrip ==
    pc = "u_done" =>
        LET ms == find_iter(regex, uLine)
        IN  /\ Strip(uHighlight) = uLine
            /\ ms = <<>> => uHighlight = uLine
            /\ colorize =>
                  Spans(uHighlight, FALSE, <<>>)
                     = [k \in DOMAIN ms |-> Slice(uLine, ms[k].start, ms[k].end)]

C7_Witness ==
    /\ pc = "u_done"
    /\ colorize
    /\ args.pattern = <<"a">>
    /\ args.case_insensitive
    /\ uLine = <<"a", "A", ".">>
    /\ uHighlight = <<MarkOn, "a", MarkOff, MarkOn, "A", MarkOff, ".">>

====
